---- MODULE Spec2Model ----
(***************************************************************************)
(* Binary resolution of the design-tokens-language-server Zed extension.   *)
(*                                                                         *)
(* Two revisions of the extension are modelled side by side:               *)
(*   dtls.rs  DesignTokensExtension::language_server_binary                *)
(*            (search path -> process cache -> GitHub release download)    *)
(*   lib.rs   DesignTokensLanguageserverExtension::                        *)
(*            language_server_binary_path / get_local_bin_path / copy_bin  *)
(*                                                                         *)
(* The filesystem, the release feed, the host's download and chmod calls   *)
(* and the worktree (search path, shell environment) are the environment:  *)
(* every outcome they can produce is a nondeterministic choice.            *)
(***************************************************************************)
EXTENDS Naturals, FiniteSets, Sequences, TLC

VARIABLES
    platform,             \* zed::current_platform().0
    arch,                 \* zed::current_platform().1
    cached_binary_path,   \* DesignTokensExtension.cached_binary_path (Option as a set)
    lib_cached_path,      \* DesignTokensLanguageserverExtension.cached_binary_path
    dirs,                 \* directories that exist in the extension's working directory
    files,                \* path -> "absent" | "file" (not executable) | "exec"
    last                  \* what the last call saw, did and returned

vars == <<platform, arch, cached_binary_path, lib_cached_path, dirs, files, last>>

(***************************************************************************)
(* Bounds                                                                  *)
(***************************************************************************)
MaxVersions == 2          \* release versions the feed may report

(***************************************************************************)
(* Option<String> is a set with at most one element.                       *)
(***************************************************************************)
None == {}
Some(p) == {p}

(***************************************************************************)
(* Names and paths (dtls.rs)                                               *)
(***************************************************************************)
ToolName == "design-tokens-language-server"

Platforms == {"Windows", "Mac", "Linux"}
Architectures == {"Aarch64", "X8664", "X86"}

\* release.version of the i-th release
Version(i) == "v" \o ToString(i)
Versions == {Version(i) : i \in 1..MaxVersions}

\* Faulty variant: the Windows branch uses the target-triple architecture names.
WinArchNameTriple(a) ==
    CASE a = "Aarch64" -> [panic |-> FALSE, name |-> "aarch64"]
      [] a = "X8664"   -> [panic |-> FALSE, name |-> "x86_64"]
      [] a = "X86"     -> [panic |-> TRUE,  name |-> ""]

\* dtls.rs 49-53: match arch (Windows); X86 => todo!() panics
WinArchName(a) ==
    CASE a = "Aarch64" -> [panic |-> FALSE, name |-> "arm64"]
      [] a = "X8664"   -> [panic |-> FALSE, name |-> "x64"]
      [] a = "X86"     -> [panic |-> TRUE,  name |-> ""]

\* dtls.rs 58-62: match arch (Unix); X86 => todo!() panics
UnixArchName(a) ==
    CASE a = "Aarch64" -> [panic |-> FALSE, name |-> "aarch64"]
      [] a = "X8664"   -> [panic |-> FALSE, name |-> "x86_64"]
      [] a = "X86"     -> [panic |-> TRUE,  name |-> ""]

\* dtls.rs 63-67: match platform (inside the non-Windows arm)
OsName(p) ==
    CASE p = "Mac"   -> "apple-darwin"
      [] p = "Linux" -> "unknown-linux-gnu"

\* dtls.rs 46-70: asset_name; the architecture is matched before the format!,
\* so X86 panics on every platform and no name is produced.
AssetName(p, a) ==
    IF p = "Windows"
    THEN LET an == WinArchName(a)
         IN  IF an.panic THEN [panic |-> TRUE, name |-> ""]
             ELSE [panic |-> FALSE,
                   name  |-> "design-tokens-language-server-win-" \o an.name \o ".exe"]
    ELSE LET an == UnixArchName(a)
         IN  IF an.panic THEN [panic |-> TRUE, name |-> ""]
             ELSE [panic |-> FALSE,
                   name  |-> "design-tokens-language-server-" \o an.name \o "-" \o OsName(p)]

\* every asset name the six supported pairs produce
AllAssetNames ==
    {AssetName(p, a).name : p \in Platforms, a \in Architectures \ {"X86"}}

\* dtls.rs 78: version_dir
VersionDir(version) == "design-tokens-language-server-" \o version

\* dtls.rs 82: binary_path
BinaryPath(version_dir, asset_name) == version_dir \o "/" \o asset_name

VersionDirs == {VersionDir(v) : v \in Versions}

\* the files a version directory may hold
FilesUnder(d) == {BinaryPath(d, n) : n \in AllAssetNames}

\* where the worktree's search path may hold the tool
WhichPath == "/usr/local/bin/design-tokens-language-server"


(***************************************************************************)
(* Names and paths (lib.rs)                                                *)
(***************************************************************************)
\* Path::join of a relative component onto a base without trailing separator
Join(base, comp) == IF base = "" THEN comp ELSE base \o "/" \o comp

\* worktree.root_path()
RootPath == "/proj"

\* values of HOME and XDG_STATE_HOME in worktree.shell_env(); None = unset
Homes == {None, Some("/home/u"), Some("/home/v")}
StateHomes == {None, Some("/state")}
Envs == [home : Homes, xdg : StateHomes]

\* Faulty variant: a missing HOME is replaced by the empty string instead of panicking.
get_local_bin_path_default_home(env) ==
    LET home == IF env.home = None THEN "" ELSE CHOOSE h \in env.home : TRUE
        state_home == IF env.xdg = None THEN Join(home, ".local")
                      ELSE CHOOSE h \in env.xdg : TRUE
    IN  [panic |-> FALSE, path |-> Join(Join(state_home, "bin"), ToolName)]

\* lib.rs 38-65: get_local_bin_path; HOME is read first and its absence panics
get_local_bin_path(env) ==
    IF env.home = None
    THEN [panic |-> TRUE, path |-> ""]
    ELSE LET home == CHOOSE h \in env.home : TRUE
             state_home == IF env.xdg = None THEN Join(home, ".local")
                           ELSE CHOOSE h \in env.xdg : TRUE
         IN  [panic |-> FALSE, path |-> Join(Join(state_home, "bin"), ToolName)]

\* lib.rs 68-71: binary_path of copy_bin, the project-local file
ProjectBinPath == Join(RootPath, "node_modules/.bin/design-tokens-language-server")

\* the state-directory paths get_local_bin_path can produce
LocalBinPaths ==
    {get_local_bin_path(e).path : e \in {e \in Envs : e.home # None}}

(***************************************************************************)
(* Filesystem                                                              *)
(***************************************************************************)
FileStates == {"absent", "file", "exec"}

AllPaths ==
    UNION {FilesUnder(d) : d \in VersionDirs}
        \cup {WhichPath, ProjectBinPath} \cup LocalBinPaths

\* the paths a host of platform p and architecture a can ever touch
HostPaths(p, a) ==
    (IF AssetName(p, a).panic THEN {}
     ELSE {BinaryPath(d, AssetName(p, a).name) : d \in VersionDirs})
        \cup {WhichPath, ProjectBinPath} \cup LocalBinPaths

\* fs::metadata(path).map_or(false, |stat| stat.is_file())   dtls.rs 21, 84; lib.rs 23
IsFile(fs, p) == p \in DOMAIN fs /\ fs[p] # "absent"

\* the state of the file an optional path names ("none" without a path)
FileOf(opt, fs) == IF opt = None THEN "none" ELSE fs[CHOOSE q \in opt : TRUE]

\* the files of fs with every path of ps set to state st
SetFiles(fs, ps, st) == [q \in DOMAIN fs |-> IF q \in ps THEN st ELSE fs[q]]

\* the record of a call that has not happened
NoCall ==
    [op |-> "none", result |-> "none", error |-> "", path |-> None,
     source |-> "none", which |-> None, env |-> [home |-> None, xdg |-> None],
     cacheBefore |-> None, cacheFileBefore |-> "none", dirsBefore |-> {},
     assets |-> {},
     queried |-> FALSE, version |-> None, asset_name |-> None,
     createdDir |-> FALSE, downloadCalled |-> FALSE, chmodCalled |-> FALSE,
     listed |-> FALSE, entryError |-> FALSE,
     removeCalls |-> {}, removeFailed |-> {},
     copyFrom |-> None, copyTo |-> None]

TypeOK ==
    /\ platform \in Platforms
    /\ arch \in Architectures
    /\ cached_binary_path \subseteq AllPaths
    /\ Cardinality(cached_binary_path) <= 1
    /\ lib_cached_path \subseteq AllPaths
    /\ dirs \subseteq VersionDirs
    /\ files \in [HostPaths(platform, arch) -> FileStates]
    /\ \A d \in VersionDirs \ dirs :
          \A p \in FilesUnder(d) \cap DOMAIN files : files[p] = "absent"

(***************************************************************************)
(* Init: Extension::new() (dtls.rs 115-119, lib.rs 85-89) in a working     *)
(* directory that earlier runs of the host may have left behind: any of    *)
(* the version directories may be there, empty or with this platform's     *)
(* binary installed.                                                       *)
(***************************************************************************)
InitialFiles(p, a, ds, binState, libState) ==
    [q \in HostPaths(p, a) |->
        IF q = WhichPath THEN "exec"
        ELSE IF q \in DOMAIN libState THEN libState[q]
        ELSE IF AssetName(p, a).panic THEN "absent"
        ELSE IF \E d \in ds : q = BinaryPath(d, AssetName(p, a).name)
             THEN binState[CHOOSE d \in ds : q = BinaryPath(d, AssetName(p, a).name)]
             ELSE "absent"]

LibPaths == LocalBinPaths \cup {ProjectBinPath}

\* the extension of dtls.rs on any host; the paths of lib.rs are not its concern
Init ==
    /\ platform \in Platforms
    /\ arch \in Architectures
    /\ cached_binary_path = None
    /\ lib_cached_path = None
    /\ dirs \in SUBSET VersionDirs
    /\ \E binState \in [VersionDirs -> {"absent", "exec"}] :
          files = InitialFiles(platform, arch, dirs, binState,
                               [q \in LibPaths |-> "absent"])
    /\ last = NoCall

\* the extension of lib.rs: it never asks for the platform and never touches
\* the working directory; the state directory and the project hold anything
InitLib ==
    /\ platform = "Linux"
    /\ arch = "X8664"
    /\ cached_binary_path = None
    /\ lib_cached_path = None
    /\ dirs = {}
    /\ \E libState \in [LibPaths -> FileStates] :
          files = InitialFiles(platform, arch, dirs,
                               [d \in VersionDirs |-> "absent"], libState)
    /\ last = NoCall

(***************************************************************************)
(* Environment inputs of one call                                          *)
(***************************************************************************)
\* worktree.which("design-tokens-language-server"): None, or the path of an
\* executable on the worktree's search path
WhichResults(fs) == {None} \cup {Some(p) : p \in {q \in {WhichPath} : fs[q] = "exec"}}

\* zed::latest_github_release(.., require_assets: true): an error, or a release
\* with a version and a non-empty set of asset names
\* (a release carries the Windows binaries or the Unix binaries, so that every
\* host meets a release with its asset and a release without it)
WindowsAssets == {AssetName("Windows", a).name : a \in Architectures \ {"X86"}}
AssetSets == {WindowsAssets, AllAssetNames \ WindowsAssets}
ReleaseResults ==
    {[err |-> TRUE, version |-> "", assets |-> {}]}
        \cup [err : {FALSE}, version : Versions, assets : AssetSets]

(***************************************************************************)
(* Decisions of language_server_binary (dtls.rs)                           *)
(***************************************************************************)
\* dtls.rs 16: if let Some(path) = worktree.which(..)
WhichHit(w) == w # None

\* Faulty variant: the cached path is returned without looking at the file.
CacheHitUnchecked(cache, fs) == cache # None

\* dtls.rs 20-21: a cached path whose file is a regular file
CacheHit(cache, fs) == cache # None /\ \A p \in cache : IsFile(fs, p)

\* Faulty variant: any asset of the release is taken.
FindAssetAny(assets, asset_name) == assets # {}

\* dtls.rs 72-76: release.assets.iter().find(|asset| asset.name == asset_name)
FindAsset(assets, asset_name) == asset_name \in assets

\* dtls.rs 84: !fs::metadata(&binary_path).map_or(false, |stat| stat.is_file())
NeedsDownload(fs, binary_path) == ~IsFile(fs, binary_path)

\* Faulty variant: the comparison is inverted, so the current version directory goes.
StaleEntriesInverted(entries, version_dir) == {e \in entries : e = version_dir}

\* dtls.rs 103: entries whose file name differs from version_dir
StaleEntries(entries, version_dir) == {e \in entries : e # version_dir}

\* Faulty variant: a failed removal ends the call like the other cleanup errors.
RemoveErrorsIgnoredNot(failed) == failed = {}

\* dtls.rs 104: fs::remove_dir_all(entry.path()).ok() discards the result
RemoveErrorsIgnored(failed) == TRUE

\* Faulty variant: the cache is never written.
CacheOnReturnNever(ok, cache, binary_path) == cache

\* dtls.rs 109: the cache is assigned only on the path that returns Ok
CacheOnReturn(ok, cache, binary_path) == IF ok THEN Some(binary_path) ELSE cache

\* the end of a call: the state it leaves and the record of what it did
Return(fs, ds, cache, libcache, rec) ==
    /\ files' = fs
    /\ dirs' = ds
    /\ cached_binary_path' = cache
    /\ lib_cached_path' = libcache
    /\ last' = rec
    /\ UNCHANGED <<platform, arch>>

(***************************************************************************)
(* dtls.rs 11-111: DesignTokensExtension::language_server_binary, called   *)
(* by language_server_command (dtls.rs 121-134), which wraps the returned  *)
(* path into a Command and passes every failure on.                        *)
(***************************************************************************)
\* dtls.rs 99-106: the listing of "." and the removal of the stale entries.
\* read_dir may fail; an entry may fail to load after any set `seen` of the
\* entries has been handled; remove_dir_all of an entry may fail (.ok()), and a
\* failed removal may already have emptied the directory.
Cleanup(B, fs, ds, version_dir, binary_path) ==
    \E ls \in {"ok", "err"} :
        IF ls = "err"
        THEN Return(fs, ds, CacheOnReturn(FALSE, cached_binary_path, binary_path),
                    lib_cached_path,
                    [B EXCEPT !.result = "err",
                              !.error = "failed to list working directory"])
        ELSE \E entryErr \in BOOLEAN :
             \E seen \in (IF entryErr THEN SUBSET ds ELSE {ds}) :
             LET targets == StaleEntries(seen, version_dir) IN
             \E failed \in SUBSET targets :
             \E emptied \in SUBSET failed :
             LET removed == targets \ failed
                 gone == UNION {FilesUnder(d) : d \in removed \cup emptied}
                 fs2 == SetFiles(fs, gone, "absent")
                 ds2 == ds \ removed
                 L == [B EXCEPT !.listed = TRUE, !.entryError = entryErr,
                                !.removeCalls = targets, !.removeFailed = failed]
             IN  IF entryErr \/ ~RemoveErrorsIgnored(failed)
                 THEN Return(fs2, ds2,
                             CacheOnReturn(FALSE, cached_binary_path, binary_path),
                             lib_cached_path,
                             [L EXCEPT !.result = "err",
                                       !.error = "failed to load directory entry"])
                 ELSE Return(fs2, ds2,
                             CacheOnReturn(TRUE, cached_binary_path, binary_path),
                             lib_cached_path,
                             [L EXCEPT !.result = "ok", !.path = Some(binary_path),
                                       !.source = "release"])

\* dtls.rs 85-97: download_file, then make_file_executable. A failed download
\* leaves nothing or a partial file; a file that was downloaded is a regular
\* file that is not executable until make_file_executable succeeds.
Download(B, fs, ds, version_dir, binary_path) ==
    \E dl \in {"ok", "err_nothing", "err_partial"} :
        LET D == [B EXCEPT !.downloadCalled = TRUE] IN
        IF dl # "ok"
        THEN Return(IF dl = "err_partial" THEN SetFiles(fs, {binary_path}, "file") ELSE fs,
                    ds, CacheOnReturn(FALSE, cached_binary_path, binary_path),
                    lib_cached_path,
                    [D EXCEPT !.result = "err", !.error = "failed to download file"])
        ELSE \E chmod \in {"ok", "err"} :
             LET M == [D EXCEPT !.chmodCalled = TRUE] IN
             IF chmod = "err"
             THEN Return(SetFiles(fs, {binary_path}, "file"), ds,
                         CacheOnReturn(FALSE, cached_binary_path, binary_path),
                         lib_cached_path,
                         [M EXCEPT !.result = "err", !.error = "make_file_executable"])
             ELSE Cleanup(M, SetFiles(fs, {binary_path}, "exec"), ds,
                          version_dir, binary_path)

\* dtls.rs 78-110: the install into the version directory
Install(B, version, asset_name) ==
    LET version_dir == VersionDir(version)
        binary_path == BinaryPath(version_dir, asset_name)
        C == [B EXCEPT !.createdDir = TRUE]
    IN  \E mkdir \in {"ok", "err"} :
        IF mkdir = "err"
        THEN Return(files, dirs, CacheOnReturn(FALSE, cached_binary_path, binary_path),
                    lib_cached_path,
                    [C EXCEPT !.result = "err", !.error = "failed to create directory"])
        ELSE IF NeedsDownload(files, binary_path)
             THEN Download(C, files, dirs \cup {version_dir}, version_dir, binary_path)
             ELSE Return(files, dirs \cup {version_dir},
                         CacheOnReturn(TRUE, cached_binary_path, binary_path),
                         lib_cached_path,
                         [C EXCEPT !.result = "ok", !.path = Some(binary_path),
                                   !.source = "release"])

\* dtls.rs 26-76: the release query, the asset name and the asset lookup
Acquire(B) ==
    \E release \in ReleaseResults :
        LET Q == [B EXCEPT !.queried = TRUE] IN
        IF release.err
        THEN Return(files, dirs, cached_binary_path, lib_cached_path,
                    [Q EXCEPT !.result = "err", !.error = "latest_github_release"])
        ELSE LET an == AssetName(platform, arch)
                 R == [Q EXCEPT !.version = Some(release.version),
                                !.assets = release.assets]
             IN  IF an.panic
                 THEN Return(files, dirs, cached_binary_path, lib_cached_path,
                             [R EXCEPT !.result = "panic",
                                       !.error = "not yet implemented"])
                 ELSE LET A == [R EXCEPT !.asset_name = Some(an.name)] IN
                      IF ~FindAsset(release.assets, an.name)
                      THEN Return(files, dirs, cached_binary_path, lib_cached_path,
                                  [A EXCEPT !.result = "err",
                                            !.error = "no asset found matching"])
                      ELSE Install(A, release.version, an.name)

language_server_binary ==
    \E w \in WhichResults(files) :
        LET B == [NoCall EXCEPT !.op = "dtls", !.which = w,
                                !.cacheBefore = cached_binary_path,
                                !.cacheFileBefore = FileOf(cached_binary_path, files),
                                !.dirsBefore = dirs]
        IN  IF WhichHit(w)
            THEN Return(files, dirs, cached_binary_path, lib_cached_path,
                        [B EXCEPT !.result = "ok", !.path = w, !.source = "which"])
            ELSE IF CacheHit(cached_binary_path, files)
                 THEN Return(files, dirs, cached_binary_path, lib_cached_path,
                             [B EXCEPT !.result = "ok", !.path = cached_binary_path,
                                       !.source = "cache"])
                 ELSE Acquire(B)

(***************************************************************************)
(* The environment between calls: a version directory is removed from the  *)
(* working directory by something other than the extension.                *)
(***************************************************************************)
ExternalRemove ==
    \E d \in dirs :
        /\ dirs' = dirs \ {d}
        /\ files' = SetFiles(files, FilesUnder(d), "absent")
        /\ last' = [NoCall EXCEPT !.op = "env"]
        /\ UNCHANGED <<platform, arch, cached_binary_path, lib_cached_path>>

(***************************************************************************)
(* lib.rs                                                                  *)
(***************************************************************************)
\* lib.rs 18: Some(&self.get_local_bin_path(worktree)), a pattern that always
\* matches: the derived path is wrapped, never looked up on disk
LocalLookup(local_bin_path) == Some(local_bin_path)

\* lib.rs 75: fs::copy(&local_bin_path, binary_path.clone()): the first
\* argument is the file read, the second the file written
CopyFrom(local_bin_path, binary_path) == local_bin_path
CopyTo(local_bin_path, binary_path) == binary_path

\* lib.rs 67-81: copy_bin. fs::copy fails when the file read is missing or on
\* an I/O error (which may leave a partial file written); on success the file
\* written has the content and the permissions of the file read, and the
\* path returned is binary_path.
CopyBin(B, env, setCache) ==
    LET binary_path == ProjectBinPath
        local == get_local_bin_path(env)
    IN  IF local.panic
        THEN Return(files, dirs, cached_binary_path, lib_cached_path,
                    [B EXCEPT !.result = "panic", !.error = "No HOME env var"])
        ELSE LET from == CopyFrom(local.path, binary_path)
                 to == CopyTo(local.path, binary_path)
                 C == [B EXCEPT !.copyFrom = Some(from), !.copyTo = Some(to)]
             IN  IF ~IsFile(files, from)
                 THEN Return(files, dirs, cached_binary_path, lib_cached_path,
                             [C EXCEPT !.result = "err", !.error = "not found"])
                 ELSE \E io \in {"ok", "err", "err_partial"} :
                      IF io = "ok"
                      THEN Return(SetFiles(files, {to}, files[from]), dirs,
                                  cached_binary_path,
                                  IF setCache THEN Some(binary_path) ELSE lib_cached_path,
                                  [C EXCEPT !.result = "ok", !.path = Some(binary_path),
                                            !.source = "copy"])
                      ELSE Return(IF io = "err_partial"
                                  THEN SetFiles(files, {to}, "file") ELSE files,
                                  dirs, cached_binary_path, lib_cached_path,
                                  [C EXCEPT !.result = "err", !.error = "io"])

\* copy_bin taken by itself
copy_bin ==
    \E w \in WhichResults(files), env \in Envs :
        CopyBin([NoCall EXCEPT !.op = "copy_bin", !.which = w, !.env = env,
                               !.cacheBefore = lib_cached_path], env, FALSE)

\* lib.rs 13-36: language_server_binary_path, called by language_server_command
\* (lib.rs 91-105), which wraps the path into a Command and passes errors on
language_server_binary_path ==
    \E w \in WhichResults(files), env \in Envs :
        LET B == [NoCall EXCEPT !.op = "lib", !.which = w, !.env = env,
                                !.cacheBefore = lib_cached_path]
            local == get_local_bin_path(env)
        IN  IF local.panic
            THEN Return(files, dirs, cached_binary_path, lib_cached_path,
                        [B EXCEPT !.result = "panic", !.error = "No HOME env var"])
            ELSE IF LocalLookup(local.path) # None
                 THEN Return(files, dirs, cached_binary_path, lib_cached_path,
                             [B EXCEPT !.result = "ok", !.path = LocalLookup(local.path),
                                       !.source = "local"])
                 ELSE IF CacheHit(lib_cached_path, files)
                      THEN Return(files, dirs, cached_binary_path, lib_cached_path,
                                  [B EXCEPT !.result = "ok", !.path = lib_cached_path,
                                            !.source = "cache"])
                      ELSE CopyBin(B, env, TRUE)

NextLib ==
    \/ language_server_binary_path
    \/ copy_bin

SpecLib == InitLib /\ [][NextLib]_vars

Next ==
    \/ language_server_binary
    \/ ExternalRemove

Spec == Init /\ [][Next]_vars

(***************************************************************************)
(* Properties                                                              *)
(***************************************************************************)
IsResolution == last.op \in {"dtls", "lib"}

\* the version directory and the binary path of the release the last call saw
LastVersionDir == VersionDir(CHOOSE v \in last.version : TRUE)

\* C1: every resolution call that returns success returns the path of a file
\* that exists and is executable at the moment of return.
C1_ResolvedPathIsExecutable ==
    (IsResolution /\ last.result = "ok") =>
        /\ last.path # None
        /\ \A p \in last.path : p \in DOMAIN files /\ files[p] = "exec"

\* C2: when the worktree's search path holds the tool, resolution returns
\* exactly that path and queries no release, downloads nothing, creates no
\* directory, deletes nothing, copies nothing and leaves the cache alone.
C2_SearchPathHitReturnedUntouched ==
    (IsResolution /\ last.which # None) =>
        /\ last.result = "ok"
        /\ last.path = last.which
        /\ ~last.queried /\ ~last.createdDir
        /\ ~last.downloadCalled /\ ~last.chmodCalled
        /\ ~last.listed /\ last.removeCalls = {}
        /\ last.copyTo = None
        /\ dirs = last.dirsBefore
        /\ cached_binary_path = last.cacheBefore \/ last.op = "lib"
        /\ lib_cached_path = last.cacheBefore \/ last.op = "dtls"

\* C2, for dtls.rs alone: language_server_binary does what the claim says.
C2_DtlsSearchPathHit ==
    (last.op = "dtls") => C2_SearchPathHitReturnedUntouched

\* C3 as stated: if a resolution call succeeded and its file is still there,
\* the next resolution call returns the identical path and makes no
\* download_file call, no make-executable call and no removal.
C3_SecondCallSamePath ==
    [][(/\ last.op = "dtls" /\ last.result = "ok"
        /\ \A p \in last.path : files[p] # "absent"
        /\ last'.op = "dtls")
       => (/\ last'.result = "ok"
           /\ last'.path = last.path
           /\ ~last'.downloadCalled /\ ~last'.chmodCalled
           /\ last'.removeCalls = {})]_vars

\* C3 amended: the same, provided the second call's search-path lookup gives
\* what the first call's gave.
C3_SecondCallSamePathSameLookup ==
    [][(/\ last.op = "dtls" /\ last.result = "ok"
        /\ \A p \in last.path : files[p] # "absent"
        /\ last'.op = "dtls"
        /\ last'.which = last.which)
       => (/\ last'.result = "ok"
           /\ last'.path = last.path
           /\ ~last'.queried
           /\ ~last'.downloadCalled /\ ~last'.chmodCalled
           /\ last'.removeCalls = {}
           /\ files' = files /\ dirs' = dirs)]_vars

\* a second call answered from the process cache: the cache was filled by an
\* earlier successful call of this instance
C3_Witness ==
    /\ last.op = "dtls" /\ last.result = "ok" /\ last.source = "cache"
    /\ last.which = None /\ last.cacheFileBefore = "exec"

\* the table of asset file names of the specification (section 6)
SpecFilename(p, a) ==
    CASE p = "Windows" /\ a = "Aarch64" -> "design-tokens-language-server-win-arm64.exe"
      [] p = "Windows" /\ a = "X8664" -> "design-tokens-language-server-win-x64.exe"
      [] p = "Mac" /\ a = "Aarch64" -> "design-tokens-language-server-aarch64-apple-darwin"
      [] p = "Mac" /\ a = "X8664" -> "design-tokens-language-server-x86_64-apple-darwin"
      [] p = "Linux" /\ a = "Aarch64" -> "design-tokens-language-server-aarch64-unknown-linux-gnu"
      [] p = "Linux" /\ a = "X8664" -> "design-tokens-language-server-x86_64-unknown-linux-gnu"

\* C4: whenever the remote-acquisition step computes the asset file name, it
\* is the table's name for the six supported pairs, and on 32-bit x86 the
\* call fails without a file name on every platform.
C4_AssetNameMatchesTable ==
    (last.op = "dtls" /\ last.version # None) =>
        IF arch = "X86"
        THEN /\ last.result = "panic"
             /\ last.asset_name = None /\ last.path = None
             /\ ~last.createdDir /\ ~last.downloadCalled
        ELSE /\ last.asset_name = Some(SpecFilename(platform, arch))
             /\ last.result \in {"ok", "err"}
             /\ last.result = "ok" =>
                   last.path = Some(LastVersionDir \o "/" \o SpecFilename(platform, arch))

C4_Witness ==
    /\ last.op = "dtls" /\ platform = "Windows" /\ arch = "Aarch64"
    /\ last.result = "ok" /\ last.downloadCalled
    /\ last.asset_name = Some("design-tokens-language-server-win-arm64.exe")

C4_WitnessX86 ==
    last.op = "dtls" /\ arch = "X86" /\ last.result = "panic"

\* C5: when the release has no asset with the computed name, the call returns
\* the asset-not-found error, downloads nothing, creates no directory,
\* deletes nothing and leaves the cache as it was.
C5_AssetNotFound ==
    (/\ last.op = "dtls" /\ last.asset_name # None
     /\ \A n \in last.asset_name : n \notin last.assets) =>
        /\ last.result = "err"
        /\ last.error = "no asset found matching"
        /\ last.path = None
        /\ ~last.createdDir /\ ~last.downloadCalled /\ ~last.chmodCalled
        /\ ~last.listed /\ last.removeCalls = {}
        /\ dirs = last.dirsBefore
        /\ cached_binary_path = last.cacheBefore

C5_Witness ==
    /\ last.op = "dtls" /\ last.asset_name # None
    /\ \A n \in last.asset_name : n \notin last.assets
    /\ last.error = "no asset found matching"
    /\ last.dirsBefore # {} /\ last.cacheBefore # None

\* a call that downloaded the binary and returned success
DownloadedOk == last.op = "dtls" /\ last.result = "ok" /\ last.downloadCalled

\* C6 as stated: after a call that downloads the binary into the version
\* directory, every other directory that was there before is gone and the
\* version directory with its binary remains: one installed version at most.
C6_OnlyCurrentVersionRemains ==
    DownloadedOk =>
        /\ LastVersionDir \in dirs
        /\ \A p \in last.path : files[p] = "exec"
        /\ \A d \in last.dirsBefore \ {LastVersionDir} : d \notin dirs
        /\ Cardinality(dirs) <= 1

\* C6 amended: after such a call the version directory with its executable
\* binary remains, removal was attempted for every other directory that was
\* there before, and exactly those whose removal failed are left; one
\* installed version remains when no removal failed.
C6_StaleRemovedUnlessRemovalFailed ==
    DownloadedOk =>
        /\ LastVersionDir \in dirs
        /\ \A p \in last.path : files[p] = "exec"
        /\ last.removeCalls = last.dirsBefore \ {LastVersionDir}
        /\ last.removeFailed \subseteq last.removeCalls
        /\ dirs = {LastVersionDir} \cup last.removeFailed
        /\ last.removeFailed = {} => Cardinality(dirs) = 1

C6_Witness ==
    /\ DownloadedOk
    /\ last.dirsBefore \ {LastVersionDir} # {}
    /\ dirs = {LastVersionDir}

\* the cleanup was reached: the download and the make-executable step succeeded
CleanupReached ==
    /\ last.op = "dtls" /\ last.chmodCalled
    /\ last.error # "make_file_executable"

CleanupListingErrors ==
    {"failed to list working directory", "failed to load directory entry"}

\* C9 as stated: whatever fails in the cleanup, listing or deleting, the call
\* succeeds, caches the new binary path and returns it.
C9_CleanupErrorsIgnored ==
    CleanupReached =>
        /\ last.result = "ok"
        /\ last.path # None
        /\ cached_binary_path = last.path

\* C9 amended: a failed removal of a sibling directory is ignored (the call
\* succeeds, caches the new path and returns it); a failure to list the
\* working directory or to load one of its entries ends the call with that
\* error and leaves the cache as it was, the binary staying installed.
C9_OnlyRemovalErrorsIgnored ==
    CleanupReached =>
        IF last.listed /\ ~last.entryError
        THEN /\ last.result = "ok"
             /\ last.path = Some(BinaryPath(LastVersionDir,
                                            CHOOSE n \in last.asset_name : TRUE))
             /\ cached_binary_path = last.path
             /\ \A p \in last.path : files[p] = "exec"
        ELSE /\ last.result = "err"
             /\ last.error \in CleanupListingErrors
             /\ last.error = "failed to list working directory" => ~last.listed
             /\ cached_binary_path = last.cacheBefore
             /\ files[BinaryPath(LastVersionDir,
                                 CHOOSE n \in last.asset_name : TRUE)] = "exec"

\* a removal failed and the call succeeded all the same
C9_Witness ==
    CleanupReached /\ last.removeFailed # {} /\ last.result = "ok"

\* the listing failed after a successful install
C9_WitnessListing ==
    CleanupReached /\ last.error \in CleanupListingErrors

\* C10: the cache step answers only with a path whose file exists at lookup;
\* when the cached file is gone the call goes on to the release query; and
\* the cache changes only to the path a successful call returns.
C10_CacheOnlyIfFileExists ==
    /\ (last.op = "dtls" /\ last.source = "cache") =>
          /\ last.cacheFileBefore \in {"file", "exec"}
          /\ last.path = last.cacheBefore
          /\ \A p \in last.path : files[p] # "absent"
    /\ (last.op = "dtls" /\ last.which = None /\ last.cacheFileBefore = "absent") =>
          /\ last.source # "cache"
          /\ last.queried
    /\ (last.op = "dtls" /\ cached_binary_path # last.cacheBefore) =>
          /\ last.result = "ok"
          /\ last.source = "release"
          /\ cached_binary_path = last.path
    /\ (last.op = "dtls" /\ last.result = "ok" /\ last.which = None) =>
          cached_binary_path = last.path

\* the cached file was gone and the call fell through to the release
C10_Witness ==
    /\ last.op = "dtls" /\ last.which = None
    /\ last.cacheFileBefore = "absent" /\ last.queried
    /\ last.result = "ok"

\* C7: without HOME in the worktree's shell environment the resolution of
\* lib.rs fails, the same way whatever else the call is given, returns no
\* path and changes nothing.
C7_NoHomeFails ==
    (last.op = "lib" /\ last.env.home = None) =>
        /\ last.result = "panic"
        /\ last.error = "No HOME env var"
        /\ last.path = None
        /\ last.copyTo = None
        /\ lib_cached_path = last.cacheBefore

C7_Witness ==
    /\ last.op = "lib" /\ last.env.home = None /\ last.env.xdg # None
    /\ last.result = "panic"

\* the state-directory path of the specification for a shell environment
StateDirTarget(env) ==
    LET state_home == IF env.xdg # None THEN CHOOSE h \in env.xdg : TRUE
                      ELSE (CHOOSE h \in env.home : TRUE) \o "/.local"
    IN  state_home \o "/bin/design-tokens-language-server"

ProjectLocalFile == "/proj/node_modules/.bin/design-tokens-language-server"

\* C8: the local-copy step reads <root>/node_modules/.bin/<tool>, writes the
\* state-directory path and returns that destination; it fails with a
\* filesystem error when the project-local file is absent or the copy fails,
\* and it never writes the project-local file.
C8_CopiesProjectFileToStateDir ==
    (last.op = "copy_bin" /\ last.env.home # None) =>
        /\ last.result \in {"ok", "err"}
        /\ last.copyFrom = Some(ProjectLocalFile)
        /\ last.copyTo = Some(StateDirTarget(last.env))
        /\ last.result = "ok" => last.path = Some(StateDirTarget(last.env))
====
